---- MODULE Spec2Model ----
(***************************************************************************)
(* The meeting / TTFU / evidence / review workflow of the PDCA tracker,    *)
(* as its route handlers implement it over the relational store.           *)
(*                                                                         *)
(* Every handler is an operator from (session, target id, request body)    *)
(* and the current store to the HTTP response and the table it writes;     *)
(* the actions apply the handler's write.  Row ids are the row's position  *)
(* in its table, which is also the order of its createdAt timestamp.       *)
(* Free-text columns (title, description, comment, notes) are kept only as *)
(* far as a handler branches on them.                                      *)
(***************************************************************************)
EXTENDS Integers, Sequences, FiniteSets, TLC

(* ----------------------------- bounds --------------------------------- *)
MaxRows == 10     \* rows the store holds in all, requests in flight included
MaxCreated == 2   \* the same, for the runs that start from an empty store

(* ----------------------------- values --------------------------------- *)
GlobalRole == {"ADMIN", "SPV", "REVIEWER", "USER"}
MeetingRole == {"spv", "reviewer", "participant"}
TtfuStatus == {"OPEN", "IN_PROGRESS", "DONE", "REJECTED"}
EvidenceType == {"link", "file"}
ReviewStatus == {"approved", "rejected", "needs_revision"}

NoSession == "no-session"    \* getServerSession returned null
Absent == "absent"           \* a field the request body leaves out
Null == "null"               \* SQL NULL / a lookup that found no row
Ghost == "ghost"             \* a user id that references no User row
Bogus == "bogus"             \* a value outside the enumeration asked for
NonString == "non-string"    \* a JSON value that is not a string
NoId == -1                   \* an id field the request body leaves out

VARIABLES
    role,       \* User.globalRole, per user id (the user directory)
    meetings,   \* table Meeting, in creation order
    participants, \* table MeetingParticipant
    ttfus,      \* table TTFU, in creation order
    evidences,  \* table Evidence, in creation order
    reviews,    \* table Review, in creation order
    inflight,   \* review requests between their existence lookup and insert
    joining     \* join requests between their existence lookup and insert

vars == <<role, meetings, participants, ttfus, evidences, reviews, inflight, joining>>

Users == DOMAIN role                \* the rows of table User
Sessions == Users \cup {NoSession}  \* what getServerSession can return

Resp(status, error) == [status |-> status, error |-> error]
Ok == Resp(200, "")
Unauthorized == Resp(401, "Unauthorized")
ValidationError == Resp(400, "Validation error")
InternalError == Resp(500, "Internal server error")

\* JavaScript truthiness of an optional string field: undefined and "" are falsy.
Truthy(v) == v \notin {Absent, ""}

\* The ids a request can name: those of the rows present, and 0 for an id
\* that references no row.
MeetingIds == 0 .. Len(meetings)
TtfuIds == 0 .. Len(ttfus)
EvidenceIds == 0 .. Len(evidences)

Rows ==
    Len(meetings) + Cardinality(participants) + Len(ttfus) + Len(evidences)
        + Len(reviews) + Len(inflight) + Len(joining)

(* ------------------------- review submission --------------------------- *)
ReviewBodies ==
    [status : ReviewStatus \cup {Bogus, Absent}, comment : {Absent, "text", NonString}]

createReviewSchema(body) ==
    /\ body.status \in ReviewStatus
    /\ body.comment \in {Absent, "text"}

\* Variant: the lookup filters on the evidence only.
existingReviewOnEvidence(session, evidenceId) ==
    \E i \in DOMAIN reviews : reviews[i].evidenceId = evidenceId

existingReview(session, evidenceId) ==
    \E i \in DOMAIN reviews :
        /\ reviews[i].evidenceId = evidenceId
        /\ reviews[i].reviewerId = session

\* Variant: the comparison with the TTFU's reviewerId is left out.
ReviewChecksAnyReviewer(session, evidenceId, body) ==
    IF session = NoSession THEN Unauthorized
    ELSE IF ~createReviewSchema(body) THEN ValidationError
    ELSE IF role[session] # "REVIEWER" /\ role[session] # "ADMIN"
        THEN Resp(403, "Only reviewers and admins can review evidence")
    ELSE IF evidenceId \notin DOMAIN evidences
        THEN Resp(404, "Evidence not found")
    ELSE IF existingReview(session, evidenceId)
        THEN Resp(400, "You have already reviewed this evidence")
    ELSE Ok

\* Variant: the role is checked before the body is parsed.
ReviewChecksRoleFirst(session, evidenceId, body) ==
    IF session = NoSession THEN Unauthorized
    ELSE IF role[session] # "REVIEWER" /\ role[session] # "ADMIN"
        THEN Resp(403, "Only reviewers and admins can review evidence")
    ELSE IF ~createReviewSchema(body) THEN ValidationError
    ELSE IF evidenceId \notin DOMAIN evidences
        THEN Resp(404, "Evidence not found")
    ELSE IF /\ ttfus[evidences[evidenceId].ttfuId].reviewerId # session
            /\ role[session] # "ADMIN"
        THEN Resp(403, "You are not the assigned reviewer for this TTFU")
    ELSE IF existingReview(session, evidenceId)
        THEN Resp(400, "You have already reviewed this evidence")
    ELSE Ok

\* Variant: the evidence is looked up before the role is checked.
ReviewChecksEvidenceFirst(session, evidenceId, body) ==
    IF session = NoSession THEN Unauthorized
    ELSE IF ~createReviewSchema(body) THEN ValidationError
    ELSE IF evidenceId \notin DOMAIN evidences
        THEN Resp(404, "Evidence not found")
    ELSE IF role[session] # "REVIEWER" /\ role[session] # "ADMIN"
        THEN Resp(403, "Only reviewers and admins can review evidence")
    ELSE IF /\ ttfus[evidences[evidenceId].ttfuId].reviewerId # session
            /\ role[session] # "ADMIN"
        THEN Resp(403, "You are not the assigned reviewer for this TTFU")
    ELSE IF existingReview(session, evidenceId)
        THEN Resp(400, "You have already reviewed this evidence")
    ELSE Ok

\* Lines 133-193 of the handler: every check up to and including the
\* lookup of an existing review.  Ok means "go on to the insert".
ReviewChecks(session, evidenceId, body) ==
    IF session = NoSession THEN Unauthorized
    ELSE IF ~createReviewSchema(body) THEN ValidationError
    ELSE IF role[session] # "REVIEWER" /\ role[session] # "ADMIN"
        THEN Resp(403, "Only reviewers and admins can review evidence")
    ELSE IF evidenceId \notin DOMAIN evidences
        THEN Resp(404, "Evidence not found")
    ELSE IF /\ ttfus[evidences[evidenceId].ttfuId].reviewerId # session
            /\ role[session] # "ADMIN"
        THEN Resp(403, "You are not the assigned reviewer for this TTFU")
    ELSE IF existingReview(session, evidenceId)
        THEN Resp(400, "You have already reviewed this evidence")
    ELSE Ok

ReviewRow(session, evidenceId, body) ==
    [evidenceId |-> evidenceId, reviewerId |-> session, status |-> body.status]

\* Variant: an approved review also closes the parent TTFU.
ReviewPOSTClosingTtfu(session, evidenceId, body) ==
    LET pre == ReviewChecks(session, evidenceId, body) IN
    IF pre # Ok
    THEN [resp |-> pre, reviews |-> reviews, ttfus |-> ttfus]
    ELSE [resp |-> Ok,
          reviews |-> Append(reviews, ReviewRow(session, evidenceId, body)),
          ttfus |-> IF body.status = "approved"
                    THEN [ttfus EXCEPT ![evidences[evidenceId].ttfuId].status = "DONE"]
                    ELSE ttfus]

\* The whole handler run without interruption.
ReviewPOST(session, evidenceId, body) ==
    LET pre == ReviewChecks(session, evidenceId, body) IN
    IF pre # Ok
    THEN [resp |-> pre, reviews |-> reviews, ttfus |-> ttfus]
    ELSE [resp |-> Ok,
          reviews |-> Append(reviews, ReviewRow(session, evidenceId, body)),
          ttfus |-> ttfus]

SubmitReview(session, evidenceId, body) ==
    LET out == ReviewPOST(session, evidenceId, body) IN
    /\ out.resp = Ok => Rows < MaxRows
    /\ reviews' = out.reviews
    /\ ttfus' = out.ttfus
    /\ UNCHANGED <<role, meetings, participants, evidences, inflight, joining>>

(* --------------------------- meeting creation -------------------------- *)
ParticipantInputs == [userId : Users \cup {Ghost}, role : MeetingRole \cup {Bogus}]

createMeetingSchema(body) ==
    /\ body.title # ""
    /\ \A i \in DOMAIN body.participants : body.participants[i].role \in MeetingRole

\* Variant: the Meeting row is written first and the participant rows one
\* by one after it, each in its own statement.
MeetingPOSTPiecewise(session, body) ==
    LET keep == [resp |-> InternalError, meetings |-> meetings,
                 participants |-> participants]
        id == Len(meetings) + 1
        ps == body.participants
        bad == {i \in DOMAIN ps :
                    \/ ps[i].userId \notin Users
                    \/ \E j \in 1 .. i - 1 : ps[j].userId = ps[i].userId}
        upto == IF bad = {} THEN Len(ps)
                ELSE (CHOOSE i \in bad : \A j \in bad : i <= j) - 1
    IN
    IF session = NoSession THEN [keep EXCEPT !.resp = Unauthorized]
    ELSE IF ~createMeetingSchema(body) THEN [keep EXCEPT !.resp = ValidationError]
    ELSE [resp |-> IF bad = {} THEN Ok ELSE InternalError,
          meetings |-> Append(meetings, [createdById |-> session]),
          participants |-> participants \cup
              {[meetingId |-> id, userId |-> ps[i].userId, role |-> ps[i].role] :
                  i \in 1 .. upto}]

\* The nested create is one statement: the Meeting row and its participant
\* rows are written together or, on a constraint violation, not at all.
MeetingPOST(session, body) ==
    LET keep == [resp |-> InternalError, meetings |-> meetings,
                 participants |-> participants]
        id == Len(meetings) + 1
        ps == body.participants
    IN
    IF session = NoSession THEN [keep EXCEPT !.resp = Unauthorized]
    ELSE IF ~createMeetingSchema(body) THEN [keep EXCEPT !.resp = ValidationError]
    ELSE IF \/ \E i \in DOMAIN ps : ps[i].userId \notin Users
            \/ \E i, j \in DOMAIN ps : i # j /\ ps[i].userId = ps[j].userId
        THEN keep
    ELSE [resp |-> Ok,
          meetings |-> Append(meetings, [createdById |-> session]),
          participants |-> participants \cup
              {[meetingId |-> id, userId |-> ps[i].userId, role |-> ps[i].role] :
                  i \in DOMAIN ps}]

GenMeetingBodies == [title : {"", "t"}, participants : {<<>>}]

CreateMeeting(session, body) ==
    LET out == MeetingPOST(session, body) IN
    /\ out.resp = Ok => Rows < MaxRows
    /\ meetings' = out.meetings
    /\ participants' = out.participants
    /\ UNCHANGED <<role, ttfus, evidences, reviews, inflight, joining>>

(* ------------------------- meeting list and detail --------------------- *)
\* The date filter and the page/limit window select among the rows by
\* columns the model does not keep; the first page at the default limit of
\* ten holds every row of the runs.
MeetingsGET(session) ==
    IF session = NoSession THEN [resp |-> Unauthorized, data |-> Null]
    ELSE [resp |-> Ok, data |-> DOMAIN meetings]

ListMeetings(session) ==
    /\ MeetingsGET(session).resp.status \in {200, 401}
    /\ UNCHANGED vars

MeetingGET(session, meetingId) ==
    IF session = NoSession THEN [resp |-> Unauthorized, data |-> Null]
    ELSE IF meetingId \notin DOMAIN meetings
        THEN [resp |-> Resp(404, "Meeting not found"), data |-> Null]
    ELSE [resp |-> Ok,
          data |-> [meeting |-> meetings[meetingId],
                    participants |-> {p \in participants : p.meetingId = meetingId},
                    ttfus |-> {t \in DOMAIN ttfus : ttfus[t].meetingId = meetingId}]]

ReadMeeting(session, meetingId) ==
    /\ MeetingGET(session, meetingId).resp.status \in {200, 401, 404}
    /\ UNCHANGED vars

(* ------------------------------ meeting join --------------------------- *)
JoinBodies == [role : MeetingRole \cup {Bogus, Absent}]

joinMeetingSchema(body) == body.role \in MeetingRole

\* findUnique({where: {meetingId_userId}}): the caller's row in the meeting.
existingParticipant(session, meetingId) ==
    \E p \in participants : p.meetingId = meetingId /\ p.userId = session

\* Lines 189-213: every check up to and including the lookup.
JoinChecks(session, meetingId, body) ==
    IF session = NoSession THEN Unauthorized
    ELSE IF ~joinMeetingSchema(body) THEN ValidationError
    ELSE IF existingParticipant(session, meetingId)
        THEN Resp(400, "Already a participant in this meeting")
    ELSE Ok

\* Variant: the session is not checked.
JoinPOSTAnySession(session, meetingId, body) ==
    IF ~joinMeetingSchema(body)
    THEN [resp |-> ValidationError, participants |-> participants]
    ELSE IF existingParticipant(session, meetingId)
    THEN [resp |-> Resp(400, "Already a participant in this meeting"),
          participants |-> participants]
    ELSE IF meetingId \notin DOMAIN meetings
    THEN [resp |-> InternalError, participants |-> participants]
    ELSE [resp |-> Ok,
          participants |-> participants \cup
              {[meetingId |-> meetingId, userId |-> session, role |-> body.role]}]

\* The whole handler run without interruption.
JoinPOST(session, meetingId, body) ==
    LET pre == JoinChecks(session, meetingId, body) IN
    IF pre # Ok THEN [resp |-> pre, participants |-> participants]
    ELSE IF meetingId \notin DOMAIN meetings
        THEN [resp |-> InternalError, participants |-> participants]  \* foreign key
    ELSE [resp |-> Ok,
          participants |-> participants \cup
              {[meetingId |-> meetingId, userId |-> session, role |-> body.role]}]

JoinMeeting(session, meetingId, body) ==
    LET out == JoinPOST(session, meetingId, body) IN
    /\ out.resp = Ok => Rows < MaxRows
    /\ participants' = out.participants
    /\ UNCHANGED <<role, meetings, ttfus, evidences, reviews, inflight, joining>>

(* ----------------------------- TTFU creation --------------------------- *)
TtfuBodies ==
    [meetingId : MeetingIds \cup {NoId}, title : {"", "t"},
     assigneeId : Users \cup {Absent, "", Ghost},
     reviewerId : Users \cup {Absent, "", Ghost}]

createTTFUSchema(body) ==
    /\ body.meetingId # NoId
    /\ body.title # ""

\* prisma.user.findFirst({where: {globalRole: {in: ["REVIEWER", "ADMIN"]}}}):
\* no orderBy, so any matching row may come back; Null when none matches.
findFirstReviewer ==
    LET match == {u \in Users : role[u] \in {"REVIEWER", "ADMIN"}} IN
    IF match = {} THEN {Null} ELSE match

\* Variant: the reviewer search runs for every creator role.
AutoAssignAnyRole(session, body, found) ==
    IF Truthy(body.assigneeId) /\ Truthy(body.reviewerId)
    THEN [assigneeId |-> body.assigneeId, reviewerId |-> body.reviewerId]
    ELSE [assigneeId |-> session,
          reviewerId |-> IF found # Null THEN found ELSE session]

\* Lines 129-151.  `found` is what findFirst returned.
AutoAssign(session, body, found) ==
    IF Truthy(body.assigneeId) /\ Truthy(body.reviewerId)
    THEN [assigneeId |-> body.assigneeId, reviewerId |-> body.reviewerId]
    ELSE IF role[session] = "SPV" \/ role[session] = "USER"
    THEN [assigneeId |-> session,
          reviewerId |-> IF found # Null THEN found ELSE session]
    ELSE [assigneeId |-> IF Truthy(body.assigneeId) THEN body.assigneeId ELSE session,
          reviewerId |-> IF Truthy(body.reviewerId) THEN body.reviewerId ELSE session]

TtfuPOST(session, body, found) ==
    LET keep == [resp |-> InternalError, ttfus |-> ttfus] IN
    IF session = NoSession THEN [keep EXCEPT !.resp = Unauthorized]
    ELSE IF ~createTTFUSchema(body) THEN [keep EXCEPT !.resp = ValidationError]
    ELSE LET a == AutoAssign(session, body, found) IN
        IF ~Truthy(a.assigneeId) \/ ~Truthy(a.reviewerId)
        THEN [keep EXCEPT !.resp = Resp(400,
                "Unable to assign TTFU. No valid assignee or reviewer found.")]
        ELSE IF \/ body.meetingId \notin DOMAIN meetings
                \/ a.assigneeId \notin Users
                \/ a.reviewerId \notin Users
        THEN keep      \* foreign key violation: prisma throws, caught as 500
        ELSE [resp |-> Ok,
              ttfus |-> Append(ttfus, [meetingId |-> body.meetingId,
                                       assigneeId |-> a.assigneeId,
                                       reviewerId |-> a.reviewerId,
                                       status |-> "OPEN"])]

CreateTTFU(session, body) ==
    \E found \in findFirstReviewer :
        LET out == TtfuPOST(session, body, found) IN
        /\ out.resp = Ok => Rows < MaxRows
        /\ ttfus' = out.ttfus
        /\ UNCHANGED <<role, meetings, participants, evidences, reviews, inflight, joining>>

(* --------------------------- the new-TTFU form ------------------------- *)
\* GET /api/users: the user directory, each user with id and global role.
UsersGET == {[id |-> u, globalRole |-> role[u]] : u \in Users}

\* What users.find returns when nothing matches: `?.id` and `?.globalRole`
\* of it are undefined, here the empty string (as falsy as undefined is).
NoUser == [id |-> "", globalRole |-> ""]

\* users.find(...): of the elements that match (`hits`), the first in the
\* order of the list, which nothing fixes.
find(hits) == IF hits = {} THEN {NoUser} ELSE hits

IsCurrent(session, r) == r.id = session
IsManagerOrAdmin(r) == r.globalRole = "manager" \/ r.globalRole = "admin"

\* onSubmit: the body the form posts to /api/ttfu.  `currentUser` and
\* `reviewer` are what the two calls of users.find returned.
NewTTFUForm(data, currentUser, reviewer) ==
    LET currentUserRole ==
            IF Truthy(currentUser.globalRole) THEN currentUser.globalRole ELSE "user"
        idOf(r) == IF Truthy(r.id) THEN r.id ELSE ""
    IN
    IF currentUserRole = "supervisor" \/ currentUserRole = "user"
    THEN [meetingId |-> data.meetingId, title |-> data.title,
          assigneeId |-> idOf(currentUser), reviewerId |-> idOf(reviewer)]
    ELSE [meetingId |-> data.meetingId, title |-> data.title,
          assigneeId |-> idOf(currentUser), reviewerId |-> idOf(currentUser)]

(* -------------------------------- TTFU list ---------------------------- *)
\* The query string: each filter is applied when its parameter is non-empty.
\* A numeric search parameter the URL leaves out.
Unset == 0

TtfuQueries ==
    [meetingId : MeetingIds \cup {NoId}, status : TtfuStatus \cup {Absent, Bogus},
     assigneeId : Users \cup {Absent}, reviewerId : Users \cup {Absent},
     page : {Unset, 1, 2}, limit : {Unset, 1, 2}]

\* parseInt(searchParams.get("page") || "1"), parseInt(... "limit" || "10")
DefaultPage == 1
DefaultLimit == 10
OrDefault(v, d) == IF v = Unset THEN d ELSE v

TtfuMatches(t, query) ==
    /\ query.meetingId # NoId => ttfus[t].meetingId = query.meetingId
    /\ query.status # Absent => ttfus[t].status = query.status
    /\ query.assigneeId # Absent => ttfus[t].assigneeId = query.assigneeId
    /\ query.reviewerId # Absent => ttfus[t].reviewerId = query.reviewerId

\* findMany({where, orderBy: {createdAt: "desc"}, skip, take}): of the
\* matching TTFUs, newest first, those after the first `skip`, `limit` at most.
PageOf(query) ==
    LET limit == OrDefault(query.limit, DefaultLimit)
        skip == (OrDefault(query.page, DefaultPage) - 1) * limit
        match == {t \in DOMAIN ttfus : TtfuMatches(t, query)}
        place(t) == Cardinality({s \in match : s >= t})
    IN {t \in match : skip < place(t) /\ place(t) <= skip + limit}

TtfusGET(session, query) ==
    IF session = NoSession THEN [resp |-> Unauthorized, data |-> Null]
    ELSE IF query.status = Bogus
        THEN [resp |-> InternalError, data |-> Null]  \* not a value of the enum column
    ELSE [resp |-> Ok, data |-> PageOf(query)]

ListTTFUs(session, query) ==
    /\ TtfusGET(session, query).resp.status \in {200, 401, 500}
    /\ UNCHANGED vars

(* --------------------------- reviewer dashboard ------------------------ *)
\* fetch("/api/ttfu"): no search parameter.
NoQuery ==
    [meetingId |-> NoId, status |-> Absent, assigneeId |-> Absent,
     reviewerId |-> Absent, page |-> Unset, limit |-> Unset]

\* The page a session ends on and the TTFUs it lists as pending review.
ReviewerDashboard(session) ==
    LET got == TtfusGET(session, NoQuery)
        ttfuList == IF got.resp = Ok THEN got.data ELSE {}
        userRole == role[session]
        assignedTTFUs ==
            {t \in ttfuList : userRole = "ADMIN" \/ ttfus[t].reviewerId = session}
        reviewed(e) ==
            \E i \in DOMAIN reviews :
                reviews[i].evidenceId = e /\ reviews[i].reviewerId = session
        pendingReviewTTFUs ==
            {t \in assignedTTFUs :
                \E e \in DOMAIN evidences : evidences[e].ttfuId = t /\ ~reviewed(e)}
    IN
    IF session = NoSession THEN [page |-> "/auth/signin", pending |-> {}]
    ELSE IF userRole # "REVIEWER" /\ userRole # "ADMIN"
        THEN [page |-> "/dashboard", pending |-> {}]
    ELSE [page |-> "/reviewer/dashboard", pending |-> pendingReviewTTFUs]

(* --------------------------- evidence submission ----------------------- *)
WellFormedUrl == "https://ok"
EvidenceBodies ==
    [type : EvidenceType \cup {Bogus},
     url : {Absent, "", "not a url", WellFormedUrl},
     filePath : {Absent, "", "uploads/f"}]

\* Variant: url is z.string().optional(), any string passes.
createEvidenceSchemaAnyUrl(body) == body.type \in EvidenceType

\* z.string().url().optional(): absent passes, a present string must parse as a URL.
createEvidenceSchema(body) ==
    /\ body.type \in EvidenceType
    /\ body.url \in {Absent, WellFormedUrl}

OrNull(v) == IF Truthy(v) THEN v ELSE Null

\* Variant: a submission equal to a stored row is refused as a duplicate.
EvidencePOSTNoDuplicates(session, ttfuId, body) ==
    LET keep == [resp |-> InternalError, evidences |-> evidences]
        row == [ttfuId |-> ttfuId, type |-> body.type, url |-> OrNull(body.url),
                filePath |-> OrNull(body.filePath), submittedById |-> session]
    IN
    IF session = NoSession THEN [keep EXCEPT !.resp = Unauthorized]
    ELSE IF ~createEvidenceSchema(body) THEN [keep EXCEPT !.resp = ValidationError]
    ELSE IF ttfuId \notin DOMAIN ttfus
        THEN [keep EXCEPT !.resp = Resp(404, "TTFU not found")]
    ELSE IF body.type = "link" /\ ~Truthy(body.url)
        THEN [keep EXCEPT !.resp = Resp(400, "URL is required for link evidence")]
    ELSE IF body.type = "file" /\ ~Truthy(body.filePath)
        THEN [keep EXCEPT !.resp = Resp(400, "File path is required for file evidence")]
    ELSE IF \E e \in DOMAIN evidences : evidences[e] = row
        THEN [keep EXCEPT !.resp = Resp(400, "Evidence already submitted")]
    ELSE [resp |-> Ok, evidences |-> Append(evidences, row)]

\* Variant: a resubmission by the same user on the same TTFU overwrites
\* that user's earlier row.
EvidencePOSTReplacing(session, ttfuId, body) ==
    LET keep == [resp |-> InternalError, evidences |-> evidences]
        row == [ttfuId |-> ttfuId, type |-> body.type, url |-> OrNull(body.url),
                filePath |-> OrNull(body.filePath), submittedById |-> session]
        mine == {i \in DOMAIN evidences :
                    evidences[i].ttfuId = ttfuId /\ evidences[i].submittedById = session}
    IN
    IF session = NoSession THEN [keep EXCEPT !.resp = Unauthorized]
    ELSE IF ~createEvidenceSchema(body) THEN [keep EXCEPT !.resp = ValidationError]
    ELSE IF ttfuId \notin DOMAIN ttfus
        THEN [keep EXCEPT !.resp = Resp(404, "TTFU not found")]
    ELSE IF body.type = "link" /\ ~Truthy(body.url)
        THEN [keep EXCEPT !.resp = Resp(400, "URL is required for link evidence")]
    ELSE IF body.type = "file" /\ ~Truthy(body.filePath)
        THEN [keep EXCEPT !.resp = Resp(400, "File path is required for file evidence")]
    ELSE IF mine # {}
        THEN [resp |-> Ok,
              evidences |-> [evidences EXCEPT ![CHOOSE i \in mine : TRUE] = row]]
    ELSE [resp |-> Ok, evidences |-> Append(evidences, row)]

EvidencePOST(session, ttfuId, body) ==
    LET keep == [resp |-> InternalError, evidences |-> evidences] IN
    IF session = NoSession THEN [keep EXCEPT !.resp = Unauthorized]
    ELSE IF ~createEvidenceSchema(body) THEN [keep EXCEPT !.resp = ValidationError]
    ELSE IF ttfuId \notin DOMAIN ttfus
        THEN [keep EXCEPT !.resp = Resp(404, "TTFU not found")]
    ELSE IF body.type = "link" /\ ~Truthy(body.url)
        THEN [keep EXCEPT !.resp = Resp(400, "URL is required for link evidence")]
    ELSE IF body.type = "file" /\ ~Truthy(body.filePath)
        THEN [keep EXCEPT !.resp = Resp(400, "File path is required for file evidence")]
    ELSE [resp |-> Ok,
          evidences |-> Append(evidences, [ttfuId |-> ttfuId,
                                           type |-> body.type,
                                           url |-> OrNull(body.url),
                                           filePath |-> OrNull(body.filePath),
                                           submittedById |-> session])]

SubmitEvidence(session, ttfuId, body) ==
    LET out == EvidencePOST(session, ttfuId, body) IN
    /\ out.resp = Ok => Rows < MaxRows
    /\ evidences' = out.evidences
    /\ UNCHANGED <<role, meetings, participants, ttfus, reviews, inflight, joining>>

(* ------------------------------ TTFU read ------------------------------ *)
RECURSIVE Descending(_)
\* The ids of S as a list, largest (latest created) first.
Descending(S) ==
    IF S = {} THEN <<>>
    ELSE LET m == CHOOSE x \in S : \A y \in S : y <= x
         IN <<m>> \o Descending(S \ {m})

ReviewsOf(evidenceId) ==
    SelectSeq(reviews, LAMBDA r : r.evidenceId = evidenceId)

\* Variant: orderBy: {createdAt: "asc"}.
EvidenceListOldestFirst(ttfuId) ==
    LET ids == Descending({i \in DOMAIN evidences : evidences[i].ttfuId = ttfuId})
        n == Len(ids)
    IN [k \in DOMAIN ids |->
            [id |-> ids[n + 1 - k], row |-> evidences[ids[n + 1 - k]],
             reviews |-> ReviewsOf(ids[n + 1 - k])]]

\* include: {evidences: {include: {reviews}, orderBy: {createdAt: "desc"}}}
EvidenceList(ttfuId) ==
    LET ids == Descending({i \in DOMAIN evidences : evidences[i].ttfuId = ttfuId})
    IN [k \in DOMAIN ids |->
            [id |-> ids[k], row |-> evidences[ids[k]], reviews |-> ReviewsOf(ids[k])]]

TtfuGET(session, ttfuId) ==
    IF session = NoSession THEN [resp |-> Unauthorized, data |-> Null]
    ELSE IF ttfuId \notin DOMAIN ttfus
        THEN [resp |-> Resp(404, "TTFU not found"), data |-> Null]
    ELSE [resp |-> Ok,
          data |-> [ttfu |-> ttfus[ttfuId], evidences |-> EvidenceList(ttfuId)]]

ReadTTFU(session, ttfuId) ==
    /\ TtfuGET(session, ttfuId).resp.status \in {200, 401, 404}
    /\ UNCHANGED vars

(* --------------------------- TTFU status update ------------------------ *)
StatusBodies == [status : TtfuStatus \cup {Bogus, Absent}, notes : {Absent, "text"}]

updateSchema(body) == body.status \in TtfuStatus

\* The module that holds GET and PATCH imports next/server, next-auth,
\* @/lib/auth and @/lib/prisma only: the identifier z that PATCH uses to
\* build updateSchema, and again in its catch block, is bound to nothing.
zImported == FALSE

\* Variant: z is imported and the body is stored without being parsed.
TtfuPATCHUnvalidated(session, ttfuId, body) ==
    LET keep == [resp |-> InternalError, ttfus |-> ttfus] IN
    IF session = NoSession THEN [keep EXCEPT !.resp = Unauthorized]
    ELSE IF ttfuId \notin DOMAIN ttfus
        THEN [keep EXCEPT !.resp = Resp(404, "TTFU not found")]
    ELSE [resp |-> Ok,
          ttfus |-> [ttfus EXCEPT ![ttfuId].status = body.status]]

TtfuPATCH(session, ttfuId, body) ==
    LET keep == [resp |-> InternalError, ttfus |-> ttfus] IN
    IF session = NoSession THEN [keep EXCEPT !.resp = Unauthorized]
    ELSE IF ~zImported
        THEN keep   \* ReferenceError at z.object, and again at z.ZodError in the catch
    ELSE IF ~updateSchema(body) THEN [keep EXCEPT !.resp = ValidationError]
    ELSE IF ttfuId \notin DOMAIN ttfus
        THEN [keep EXCEPT !.resp = Resp(404, "TTFU not found")]
    ELSE [resp |-> Ok,
          ttfus |-> [ttfus EXCEPT ![ttfuId].status = body.status]]

SetStatus(session, ttfuId, body) ==
    LET out == TtfuPATCH(session, ttfuId, body) IN
    /\ ttfus' = out.ttfus
    /\ UNCHANGED <<role, meetings, participants, evidences, reviews, inflight, joining>>

(* --------------------- review submission, step by step ----------------- *)
\* Nothing ties the findFirst of lines 181-186 to the create of lines
\* 195-211: each is its own statement, other requests run in between.
ReviewLookup(session, evidenceId, body) ==
    /\ Rows < MaxRows
    /\ ReviewChecks(session, evidenceId, body) = Ok
    /\ inflight' = Append(inflight, ReviewRow(session, evidenceId, body))
    /\ UNCHANGED <<role, meetings, participants, ttfus, evidences, reviews, joining>>

ReviewRejected(session, evidenceId, body) ==
    /\ ReviewChecks(session, evidenceId, body) # Ok
    /\ UNCHANGED vars

\* Variant: the table carries a unique index on (evidenceId, reviewerId).
ReviewInsertUnique(k) ==
    /\ k \in DOMAIN inflight
    /\ ~\E i \in DOMAIN reviews :
            /\ reviews[i].evidenceId = inflight[k].evidenceId
            /\ reviews[i].reviewerId = inflight[k].reviewerId
    /\ reviews' = Append(reviews, inflight[k])
    /\ inflight' = [i \in 1 .. Len(inflight) - 1 |->
                        IF i < k THEN inflight[i] ELSE inflight[i + 1]]
    /\ UNCHANGED <<role, meetings, participants, ttfus, evidences, joining>>

ReviewInsert(k) ==
    /\ k \in DOMAIN inflight
    /\ reviews' = Append(reviews, inflight[k])
    /\ inflight' = [i \in 1 .. Len(inflight) - 1 |->
                        IF i < k THEN inflight[i] ELSE inflight[i + 1]]
    /\ UNCHANGED <<role, meetings, participants, ttfus, evidences, joining>>

(* ----------------------- requests during an outage -------------------- *)
Operations ==
    {"list meetings", "create meeting", "meeting detail", "join meeting",
     "list TTFU", "create TTFU", "read TTFU", "set status",
     "submit evidence", "submit review"}

\* The handlers whose catch block tests
\* error.message.includes("Can't reach database server").
CatchesUnreachable == {"create TTFU", "submit evidence", "submit review"}

\* The answer to an authenticated, well-formed request whose first
\* statement against the store throws the client's connection error.
StoreUnreachable(op, session) ==
    IF session = NoSession THEN Unauthorized
    ELSE IF op = "set status" /\ ~zImported THEN InternalError
    ELSE IF op \in CatchesUnreachable
        THEN Resp(503, "Database connection error. Please try again later.")
    ELSE InternalError

ServeUnreachable(op, session) ==
    /\ StoreUnreachable(op, session).status \in {401, 500, 503}
    /\ UNCHANGED vars

(* ------------------------ meeting join, step by step ------------------ *)
JoinRow(session, meetingId, body) ==
    [meetingId |-> meetingId, userId |-> session, role |-> body.role]

\* Variant: table MeetingParticipant has no unique index.
JoinCreateNoIndex(row) ==
    IF row.meetingId \notin DOMAIN meetings
    THEN [resp |-> InternalError, participants |-> participants]
    ELSE [resp |-> Ok, participants |-> participants \cup {row}]

\* prisma.meetingParticipant.create (lines 216-232) against the foreign key
\* on meetingId and the unique index on (meetingId, userId): either
\* violation throws and the catch block answers 500.
JoinCreate(row) ==
    IF \/ row.meetingId \notin DOMAIN meetings
       \/ \E p \in participants : p.meetingId = row.meetingId /\ p.userId = row.userId
    THEN [resp |-> InternalError, participants |-> participants]
    ELSE [resp |-> Ok, participants |-> participants \cup {row}]

\* The findUnique of lines 199-206 and the create of lines 216-232 are
\* separate statements.
JoinLookup(session, meetingId, body) ==
    /\ Rows < MaxRows
    /\ JoinChecks(session, meetingId, body) = Ok
    /\ joining' = Append(joining, JoinRow(session, meetingId, body))
    /\ UNCHANGED <<role, meetings, participants, ttfus, evidences, reviews, inflight>>

JoinRejected(session, meetingId, body) ==
    /\ JoinChecks(session, meetingId, body) # Ok
    /\ UNCHANGED vars

JoinInsert(k) ==
    /\ k \in DOMAIN joining
    /\ participants' = JoinCreate(joining[k]).participants
    /\ joining' = [i \in 1 .. Len(joining) - 1 |->
                        IF i < k THEN joining[i] ELSE joining[i + 1]]
    /\ UNCHANGED <<role, meetings, ttfus, evidences, reviews, inflight>>

(* ------------------- row deletion under the foreign keys --------------- *)
\* No handler deletes; a row leaves the store through a DELETE on table
\* Meeting or User, and the rows that reference it follow the ON DELETE
\* rule of their foreign key.  Ids being positions, the rows behind a
\* deleted one move up: Rank gives the id a kept row has afterwards.
Rank(keep, i) == Cardinality({j \in keep : j <= i})

Sub(seq, keep) ==
    [k \in 1 .. Cardinality(keep) |-> seq[CHOOSE i \in keep : Rank(keep, i) = k]]

\* The store once the meetings outside keepM and the users outside keepU
\* are gone, every ON DELETE CASCADE followed to the end:
\*   MeetingParticipant.meetingId, .userId; TTFU.meetingId, .assigneeId,
\*   .reviewerId; Evidence.ttfuId, .submittedById; Review.evidenceId,
\*   .reviewerId.
Cascade(keepM, keepU) ==
    LET keepT == {t \in DOMAIN ttfus :
                    /\ ttfus[t].meetingId \in keepM
                    /\ ttfus[t].assigneeId \in keepU
                    /\ ttfus[t].reviewerId \in keepU}
        keepE == {e \in DOMAIN evidences :
                    /\ evidences[e].ttfuId \in keepT
                    /\ evidences[e].submittedById \in keepU}
        keepR == {r \in DOMAIN reviews :
                    /\ reviews[r].evidenceId \in keepE
                    /\ reviews[r].reviewerId \in keepU}
    IN [role |-> [u \in keepU |-> role[u]],
        meetings |-> Sub(meetings, keepM),
        participants |->
            {[p EXCEPT !.meetingId = Rank(keepM, p.meetingId)] :
                p \in {q \in participants : q.meetingId \in keepM /\ q.userId \in keepU}},
        ttfus |->
            Sub([t \in DOMAIN ttfus |->
                    [ttfus[t] EXCEPT !.meetingId = Rank(keepM, ttfus[t].meetingId)]], keepT),
        evidences |->
            Sub([e \in DOMAIN evidences |->
                    [evidences[e] EXCEPT !.ttfuId = Rank(keepT, evidences[e].ttfuId)]], keepE),
        reviews |->
            Sub([r \in DOMAIN reviews |->
                    [reviews[r] EXCEPT !.evidenceId = Rank(keepE, reviews[r].evidenceId)]], keepR)]

Store ==
    [role |-> role, meetings |-> meetings, participants |-> participants,
     ttfus |-> ttfus, evidences |-> evidences, reviews |-> reviews]

\* Variant: TTFU_meetingId_fkey is ON DELETE RESTRICT.
MeetingDELETERestricted(meetingId) ==
    IF meetingId \notin DOMAIN meetings THEN [done |-> FALSE, store |-> Store]
    ELSE IF \E t \in DOMAIN ttfus : ttfus[t].meetingId = meetingId
        THEN [done |-> FALSE, store |-> Store]
    ELSE [done |-> TRUE, store |-> Cascade(DOMAIN meetings \ {meetingId}, Users)]

\* DELETE FROM "Meeting" WHERE id = meetingId.
MeetingDELETE(meetingId) ==
    IF meetingId \notin DOMAIN meetings THEN [done |-> FALSE, store |-> Store]
    ELSE [done |-> TRUE, store |-> Cascade(DOMAIN meetings \ {meetingId}, Users)]

\* Variant: Meeting_createdById_fkey is ON DELETE CASCADE as well.
UserDELETECascading(userId) ==
    IF userId \notin Users THEN [done |-> FALSE, store |-> Store]
    ELSE [done |-> TRUE,
          store |-> Cascade({m \in DOMAIN meetings : meetings[m].createdById # userId},
                            Users \ {userId})]

\* DELETE FROM "User" WHERE id = userId.  Meeting_createdById_fkey is
\* ON DELETE RESTRICT: the statement fails while a meeting names the user
\* as its creator.
UserDELETE(userId) ==
    IF userId \notin Users THEN [done |-> FALSE, store |-> Store]
    ELSE IF \E m \in DOMAIN meetings : meetings[m].createdById = userId
        THEN [done |-> FALSE, store |-> Store]
    ELSE [done |-> TRUE, store |-> Cascade(DOMAIN meetings, Users \ {userId})]

Install(store) ==
    /\ role' = store.role
    /\ meetings' = store.meetings
    /\ participants' = store.participants
    /\ ttfus' = store.ttfus
    /\ evidences' = store.evidences
    /\ reviews' = store.reviews
    /\ UNCHANGED <<inflight, joining>>

DeleteMeeting(meetingId) == Install(MeetingDELETE(meetingId).store)

DeleteUser(userId) == Install(UserDELETE(userId).store)

(* -------------------------- inputs of the runs ------------------------- *)
GenTtfuBodies ==
    [meetingId : {1}, title : {"t"},
     assigneeId : {"user", Absent}, reviewerId : {"reviewer", "spv", Absent}]
    \cup {[meetingId |-> NoId, title |-> "", assigneeId |-> Absent, reviewerId |-> Absent]}
GenEvidenceBodies ==
    {[type |-> "link", url |-> WellFormedUrl, filePath |-> Absent],
     [type |-> "file", url |-> Absent, filePath |-> "uploads/f"],
     [type |-> "link", url |-> "not a url", filePath |-> Absent],
     [type |-> "file", url |-> WellFormedUrl, filePath |-> "uploads/f"]}
GenReviewBodies == [status : {"approved", "rejected", Bogus}, comment : {Absent}]
GenStatusBodies == [status : {"DONE", Bogus}, notes : {Absent}]
GenJoinBodies == [role : {"participant", Bogus}]
GenTtfuQueries ==
    [meetingId : {NoId}, status : {Absent, "OPEN", Bogus},
     assigneeId : {Absent}, reviewerId : {Absent},
     page : {Unset, 2}, limit : {Unset}]

\* Who sends what in the runs: supervisors and users call meetings,
\* anybody creates TTFUs, the assignee or an admin submits evidence.
GenOrganisers == {u \in Users : role[u] \in {"SPV", "USER"}} \cup {NoSession}
GenSubmitters(t) ==
    {u \in Users : role[u] = "ADMIN"} \cup {NoSession}
        \cup (IF t \in DOMAIN ttfus THEN {ttfus[t].assigneeId} ELSE {})
GenReaders == {u \in Users : role[u] = "USER"} \cup {NoSession}

Handlers ==
    \/ \E s \in GenOrganisers, b \in GenMeetingBodies : CreateMeeting(s, b)
    \/ \E s \in Sessions, b \in GenTtfuBodies : CreateTTFU(s, b)
    \/ \E t \in TtfuIds, b \in GenEvidenceBodies :
            \E s \in GenSubmitters(t) : SubmitEvidence(s, t, b)
    \/ \E s \in GenReaders, t \in TtfuIds : ReadTTFU(s, t)
    \/ \E s \in GenReaders, t \in TtfuIds, b \in GenStatusBodies : SetStatus(s, t, b)
    \/ \E s \in GenReaders : ListMeetings(s)
    \/ \E s \in GenReaders, m \in MeetingIds : ReadMeeting(s, m)
    \/ \E s \in GenOrganisers, m \in MeetingIds, b \in GenJoinBodies : JoinMeeting(s, m, b)
    \/ \E s \in GenReaders, q \in GenTtfuQueries : ListTTFUs(s, q)
    \/ \E s \in GenReaders, op \in Operations : ServeUnreachable(op, s)

(* The store as the seed script leaves it: four users, one per global     *)
(* role; a meeting of the supervisor's with three participants; two TTFUs; *)
(* a link evidence on the first, approved by its reviewer.                 *)
SeedRole ==
    [admin |-> "ADMIN", spv |-> "SPV", reviewer |-> "REVIEWER", user |-> "USER"]

Init ==
    /\ role = SeedRole
    /\ meetings = <<[createdById |-> "spv"]>>
    /\ participants =
          {[meetingId |-> 1, userId |-> "spv", role |-> "spv"],
           [meetingId |-> 1, userId |-> "reviewer", role |-> "reviewer"],
           [meetingId |-> 1, userId |-> "user", role |-> "participant"]}
    /\ ttfus =
          <<[meetingId |-> 1, assigneeId |-> "user", reviewerId |-> "reviewer",
             status |-> "OPEN"],
            [meetingId |-> 1, assigneeId |-> "reviewer", reviewerId |-> "spv",
             status |-> "IN_PROGRESS"]>>
    /\ evidences =
          <<[ttfuId |-> 1, type |-> "link", url |-> WellFormedUrl,
             filePath |-> Null, submittedById |-> "user"]>>
    /\ reviews =
          <<[evidenceId |-> 1, reviewerId |-> "reviewer", status |-> "approved"]>>
    /\ inflight = <<>>
    /\ joining = <<>>

(* The seeded workflow, every request served to completion before the next. *)
Next ==
    \/ Handlers
    \/ \E s \in Sessions, e \in EvidenceIds, b \in GenReviewBodies : SubmitReview(s, e, b)

Spec == Init /\ [][Next]_vars

(* The seeded workflow with review submissions interleaved. *)
GenConcReviewBodies == [status : {"approved", Bogus}, comment : {Absent}]

ConcNext ==
    \/ Handlers
    \/ \E s \in Sessions, e \in EvidenceIds, b \in GenConcReviewBodies : ReviewLookup(s, e, b)
    \/ \E s \in Sessions, e \in EvidenceIds, b \in GenConcReviewBodies : ReviewRejected(s, e, b)
    \/ \E k \in DOMAIN inflight : ReviewInsert(k)

ConcSpec == Init /\ [][ConcNext]_vars

(* Meetings of the seeded store, created and joined, joins interleaved. *)
GenInviteBodies ==
    [title : {"t"},
     participants : {<<>>, <<[userId |-> "admin", role |-> "participant"]>>,
                     <<[userId |-> "admin", role |-> "participant"],
                       [userId |-> "admin", role |-> "reviewer"]>>}]

GenRoleBodies == [role : MeetingRole \cup {Bogus}]

JoinNext ==
    \/ \E s \in GenOrganisers, b \in GenInviteBodies : CreateMeeting(s, b)
    \/ \E s \in Sessions, m \in MeetingIds, b \in GenRoleBodies : JoinLookup(s, m, b)
    \/ \E s \in Sessions, m \in MeetingIds, b \in GenRoleBodies : JoinRejected(s, m, b)
    \/ \E k \in DOMAIN joining : JoinInsert(k)

JoinSpec == Init /\ [][JoinNext]_vars

(* The seeded workflow with rows deleted from tables Meeting and User. *)
GenLateTtfuBodies ==
    [meetingId : DOMAIN meetings, title : {"t"},
     assigneeId : {Absent}, reviewerId : {Absent}]

\* The runs add rows while every seeded row is there and delete from then on.
SeedIntact ==
    /\ role = SeedRole
    /\ meetings # <<>> /\ meetings[1].createdById = "spv"
    /\ Len(ttfus) >= 2 /\ ttfus[2].reviewerId = "spv"
    /\ reviews # <<>> /\ reviews[1].reviewerId = "reviewer"

DeleteNext ==
    \/ SeedIntact /\ \E s \in GenOrganisers, b \in GenMeetingBodies : CreateMeeting(s, b)
    \/ SeedIntact /\ \E s \in Sessions, b \in GenLateTtfuBodies : CreateTTFU(s, b)
    \/ SeedIntact /\ \E t \in TtfuIds, b \in GenEvidenceBodies :
            \E s \in GenSubmitters(t) : SubmitEvidence(s, t, b)
    \/ SeedIntact /\ \E s \in Sessions, e \in EvidenceIds, b \in GenReviewBodies :
            SubmitReview(s, e, b)
    \/ \E m \in MeetingIds : DeleteMeeting(m)
    \/ \E u \in Users \cup {Ghost} : DeleteUser(u)

DeleteSpec == Init /\ [][DeleteNext]_vars

(* TTFU creation in an unseeded store, over every directory of three users. *)
CreateInit ==
    /\ role \in [{"u1", "u2", "u3"} -> GlobalRole]
    /\ meetings = <<>>
    /\ participants = {}
    /\ ttfus = <<>>
    /\ evidences = <<>>
    /\ reviews = <<>>
    /\ inflight = <<>>
    /\ joining = <<>>

GenAutoTtfuBodies ==
    [meetingId : {0, 1}, title : {"", "t"}, assigneeId : {Absent}, reviewerId : {Absent}]

CreateNext ==
    /\ Rows < MaxCreated
    /\ \/ \E s \in Sessions, b \in GenMeetingBodies : CreateMeeting(s, b)
       \/ \E s \in Sessions, b \in GenAutoTtfuBodies : CreateTTFU(s, b)

CreateSpec == CreateInit /\ [][CreateNext]_vars

(* ======================= properties of the workflow ==================== *)
\* The authorization rule for reviewing evidence e: the caller's global role
\* is reviewer or admin, and the caller is the designated reviewer of the
\* evidence's TTFU or an admin.
MayReview(u, e) ==
    /\ role[u] \in {"REVIEWER", "ADMIN"}
    /\ \/ ttfus[evidences[e].ttfuId].reviewerId = u
       \/ role[u] = "ADMIN"

HasReview(u, e) ==
    \E i \in DOMAIN reviews : reviews[i].evidenceId = e /\ reviews[i].reviewerId = u

\* A submit-review request as the operation defines it: a decision of the
\* enumeration and an optional text comment.
WellFormedReviewBodies == [status : ReviewStatus, comment : {Absent, "text"}]

AlreadyReviewed == Resp(400, "You have already reviewed this evidence")

\* C1: with requests served one at a time, no (evidence, reviewer) pair ever
\* has two Review rows; a further well-formed submit review by a reviewer R
\* who already has a Review on E is answered with the conflict error and
\* adds no row, while one by a different caller who satisfies the
\* authorization rule and has no Review on E yet succeeds and adds exactly
\* one row, the caller's.
C1_SecondReviewRejected ==
    /\ \A i, j \in DOMAIN reviews :
            (/\ reviews[i].evidenceId = reviews[j].evidenceId
             /\ reviews[i].reviewerId = reviews[j].reviewerId) => i = j
    /\ \A r \in Users, e \in DOMAIN evidences, b \in WellFormedReviewBodies :
            HasReview(r, e) =>
                /\ ReviewPOST(r, e, b).resp = AlreadyReviewed
                /\ ReviewPOST(r, e, b).reviews = reviews
                /\ \A c \in Users \ {r} :
                        (MayReview(c, e) /\ ~HasReview(c, e)) =>
                            /\ ReviewPOST(c, e, b).resp = Ok
                            /\ ReviewPOST(c, e, b).reviews =
                                   Append(reviews, [evidenceId |-> e, reviewerId |-> c,
                                                    status |-> b.status])

\* Two reviewers each hold a Review on the same evidence.
C1_TwoReviewersOnOneEvidence ==
    \E i, j \in DOMAIN reviews :
        /\ reviews[i].evidenceId = reviews[j].evidenceId
        /\ reviews[i].reviewerId # reviews[j].reviewerId

\* C2: with the lookup and the insert of a submit review as separate steps,
\* a request that passed its lookup inserts its row whatever rows the table
\* holds by then -- also when the same reviewer's row for the same evidence
\* has been inserted in between -- so two rows for one (evidence, reviewer)
\* pair come to exist.
C2_InsertAfterLookupNeverRefused ==
    \A k \in DOMAIN inflight :
        HasReview(inflight[k].reviewerId, inflight[k].evidenceId) =>
            ENABLED ReviewInsert(k)

\* Two Review rows for the same (evidence, reviewer) pair.
C2_DuplicateReviewRows ==
    \E i, j \in DOMAIN reviews :
        /\ i < j
        /\ reviews[i].evidenceId = reviews[j].evidenceId
        /\ reviews[i].reviewerId = reviews[j].reviewerId

\* C3: a well-formed submit review on an existing evidence succeeds only for
\* a caller who satisfies the authorization rule; any other authenticated
\* caller gets the authorization error (403) and no row is added; and every
\* Review row's author satisfies the rule for the row's evidence.
C3_OnlyAuthorizedReview ==
    /\ \A u \in Users, e \in DOMAIN evidences, b \in WellFormedReviewBodies :
            /\ ReviewPOST(u, e, b).resp = Ok => MayReview(u, e)
            /\ ~MayReview(u, e) =>
                    /\ ReviewPOST(u, e, b).resp.status = 403
                    /\ ReviewPOST(u, e, b).reviews = reviews
    /\ \A i \in DOMAIN reviews : MayReview(reviews[i].reviewerId, reviews[i].evidenceId)

\* An evidence carries a Review while a user of role reviewer is not allowed
\* to review it.
C3_ReviewedWithOutsider ==
    \E i \in DOMAIN reviews, u \in Users :
        /\ role[u] = "REVIEWER"
        /\ ~MayReview(u, reviews[i].evidenceId)

\* C4 as stated: a caller whose role is neither reviewer nor admin gets the
\* authorization error for every payload, valid or not, and no row is added.
C4_AuthorizationErrorAnyPayload ==
    \A u \in Users, e \in EvidenceIds, b \in ReviewBodies :
        role[u] \notin {"REVIEWER", "ADMIN"} =>
            /\ ReviewPOST(u, e, b).resp.status = 403
            /\ ReviewPOST(u, e, b).reviews = reviews

\* C4 as amended: a caller whose role is neither reviewer nor admin gets the
\* authorization error for every valid payload and the validation error
\* for every invalid one, whether or not the evidence exists; no row is
\* added either way.
C4_AuthorizationErrorValidPayload ==
    \A u \in Users, e \in EvidenceIds, b \in ReviewBodies :
        role[u] \notin {"REVIEWER", "ADMIN"} =>
            /\ b \in WellFormedReviewBodies =>
                   ReviewPOST(u, e, b).resp =
                       Resp(403, "Only reviewers and admins can review evidence")
            /\ b \notin WellFormedReviewBodies =>
                   ReviewPOST(u, e, b).resp = ValidationError
            /\ ReviewPOST(u, e, b).reviews = reviews

\* An evidence is there to review whose TTFU designates as reviewer a user
\* who is neither reviewer nor admin.
C4_OutsiderFacingEvidence ==
    \E e \in DOMAIN evidences :
        role[ttfus[evidences[e].ttfuId].reviewerId] \in {"SPV", "USER"}

\* C5: submit review, whatever the caller, the evidence, the decision and
\* the outcome, leaves every TTFU row as it was; and a read of a TTFU lists
\* each of its evidences with exactly the Review rows on it.
C5_ReviewLeavesTtfuStatus ==
    /\ \A s \in Sessions, e \in EvidenceIds, b \in ReviewBodies :
            ReviewPOST(s, e, b).ttfus = ttfus
    /\ \A u \in Users, e \in DOMAIN evidences :
            LET list == TtfuGET(u, evidences[e].ttfuId).data.evidences IN
            \E k \in DOMAIN list :
                /\ list[k].id = e
                /\ Len(list[k].reviews) =
                       Cardinality({i \in DOMAIN reviews : reviews[i].evidenceId = e})

\* A TTFU whose newly submitted evidence has exactly one Review, an approved
\* one, is still open, next to a second TTFU, and its read says so.
C5_ApprovedYetOpen ==
    \E e \in DOMAIN evidences :
        /\ e > 1
        /\ Len(ttfus) >= 2
        /\ ttfus[evidences[e].ttfuId].status = "OPEN"
        /\ Len(ReviewsOf(e)) = 1
        /\ ReviewsOf(e)[1].status = "approved"
        /\ \E u \in Users :
               LET d == TtfuGET(u, evidences[e].ttfuId).data IN
               /\ d.ttfu.status = "OPEN"
               /\ d.evidences[1].id = e
               /\ Len(d.evidences[1].reviews) = 1
               /\ d.evidences[1].reviews[1].status = "approved"

\* C6: for every existing TTFU and authenticated caller, set status with a
\* value of the enumeration succeeds and stores that value; with any other
\* value it fails validation and stores nothing.
C6_SetStatusSucceeds ==
    \A u \in Users, t \in DOMAIN ttfus, b \in StatusBodies :
        IF b.status \in TtfuStatus
        THEN /\ TtfuPATCH(u, t, b).resp = Ok
             /\ TtfuPATCH(u, t, b).ttfus[t].status = b.status
        ELSE /\ TtfuPATCH(u, t, b).resp = ValidationError
             /\ TtfuPATCH(u, t, b).ttfus = ttfus

NotGiven(b) == ~Truthy(b.assigneeId) /\ ~Truthy(b.reviewerId)
Created(out) == out.ttfus[Len(out.ttfus)]

\* C7: a TTFU created by a supervisor who names no assignee and no reviewer
\* has the creator as assignee and a user of role reviewer or admin as
\* reviewer.
C7_SupervisorAutoAssign ==
    \A u \in Users, b \in TtfuBodies, found \in findFirstReviewer :
        (role[u] = "SPV" /\ NotGiven(b) /\ TtfuPOST(u, b, found).resp = Ok) =>
            /\ Created(TtfuPOST(u, b, found)).assigneeId = u
            /\ role[Created(TtfuPOST(u, b, found)).reviewerId] \in {"REVIEWER", "ADMIN"}

\* C8: a TTFU created by a reviewer or an admin who names no assignee and no
\* reviewer has the creator as assignee and as reviewer, whoever else in
\* the directory is a reviewer or admin; under an existing meeting and with
\* a title the creation succeeds.
C8_ReviewerAdminAutoAssign ==
    \A u \in Users, b \in TtfuBodies, found \in findFirstReviewer :
        (role[u] \in {"REVIEWER", "ADMIN"} /\ NotGiven(b)) =>
            /\ TtfuPOST(u, b, found).resp = Ok =>
                   /\ Len(TtfuPOST(u, b, found).ttfus) = Len(ttfus) + 1
                   /\ Created(TtfuPOST(u, b, found)).assigneeId = u
                   /\ Created(TtfuPOST(u, b, found)).reviewerId = u
            /\ (b.meetingId \in DOMAIN meetings /\ b.title # "") =>
                   TtfuPOST(u, b, found).resp = Ok

\* A TTFU has one user of role reviewer or admin as assignee and reviewer
\* while another user is a reviewer or admin too.
C8_SelfAssignedAmongReviewers ==
    \E t \in DOMAIN ttfus, v \in Users :
        /\ ttfus[t].assigneeId = ttfus[t].reviewerId
        /\ role[ttfus[t].reviewerId] \in {"REVIEWER", "ADMIN"}
        /\ v # ttfus[t].reviewerId
        /\ role[v] \in {"REVIEWER", "ADMIN"}

\* C9: when no user of the directory is a reviewer or admin, a creation by a
\* supervisor or user that names no assignee and no reviewer (under an
\* existing meeting, with a title) fails with a validation error and adds
\* no TTFU.
C9_NoReviewerNoTtfu ==
    (\A v \in Users : role[v] \notin {"REVIEWER", "ADMIN"}) =>
        \A u \in Users, b \in TtfuBodies, found \in findFirstReviewer :
            (/\ role[u] \in {"SPV", "USER"}
             /\ NotGiven(b)
             /\ b.meetingId \in DOMAIN meetings
             /\ b.title # "") =>
                /\ TtfuPOST(u, b, found).resp.status = 400
                /\ TtfuPOST(u, b, found).ttfus = ttfus

\* The inputs C10 calls invalid.
InvalidEvidenceInput(b) ==
    \/ b.type \notin {"link", "file"}
    \/ b.type = "link" /\ b.url # WellFormedUrl
    \/ b.type = "file" /\ b.filePath \in {Absent, ""}

\* C10: on an existing TTFU and for an authenticated caller, submit evidence
\* with a kind other than link or file, with kind link and a malformed or
\* missing URL, or with kind file and no file reference fails with status
\* 400 and appends no row; with kind link and a well-formed URL it succeeds
\* and appends one row.
C10_InvalidEvidenceRejected ==
    \A u \in Users, t \in DOMAIN ttfus, b \in EvidenceBodies :
        /\ InvalidEvidenceInput(b) =>
               /\ EvidencePOST(u, t, b).resp.status = 400
               /\ EvidencePOST(u, t, b).evidences = evidences
        /\ (b.type = "link" /\ b.url = WellFormedUrl) =>
               /\ EvidencePOST(u, t, b).resp = Ok
               /\ Len(EvidencePOST(u, t, b).evidences) = Len(evidences) + 1

\* A link evidence with a well-formed URL is stored after the seeded one.
C10_LinkEvidenceStored ==
    \E e \in DOMAIN evidences :
        e > 1 /\ evidences[e].type = "link" /\ evidences[e].url = WellFormedUrl

\* C11: every Evidence row is in the evidence list that a read of its TTFU
\* returns to any authenticated caller, as stored, and that list is ordered
\* newest first: of two evidences of a TTFU the later one stands earlier.
C11_EvidenceListedNewestFirst ==
    \A u \in Users, t \in DOMAIN ttfus :
        LET list == TtfuGET(u, t).data.evidences IN
        /\ TtfuGET(u, t).resp = Ok
        /\ \A e \in DOMAIN evidences :
               evidences[e].ttfuId = t =>
                   \E k \in DOMAIN list : list[k].id = e /\ list[k].row = evidences[e]
        /\ \A k, l \in DOMAIN list : k < l => list[k].id > list[l].id

\* A TTFU holds two evidences, the second submitted after the first, and
\* its read lists the later one first.
C11_TwoEvidencesListed ==
    \E t \in DOMAIN ttfus, u \in Users :
        LET list == TtfuGET(u, t).data.evidences IN
        /\ Len(list) >= 2
        /\ list[1].id = Len(evidences)
        /\ list[1].id > list[2].id

\* C12: every Evidence row has exactly one of url and file reference
\* populated, the one of its kind: a link evidence a url and no file
\* reference, a file evidence a file reference and no url.
C12_ExactlyOneReference ==
    \A e \in DOMAIN evidences :
        /\ evidences[e].type = "link" =>
               evidences[e].url # Null /\ evidences[e].filePath = Null
        /\ evidences[e].type = "file" =>
               evidences[e].filePath # Null /\ evidences[e].url = Null

\* Meeting bodies with up to one listed participant, and the bodies that
\* fail the schema.
MeetingBodies ==
    [title : {"", "t"},
     participants : {<<>>} \cup {<<p>> : p \in ParticipantInputs}]

\* C13: every operation -- list and create meeting, meeting detail, join
\* meeting, list and create TTFU, read TTFU, set status, submit evidence,
\* submit review -- called without an authenticated session answers the
\* unauthorized error (401) whatever the payload and the target id, and
\* writes nothing.
C13_NoSessionUnauthorized ==
    /\ MeetingsGET(NoSession).resp = Unauthorized
    /\ \A b \in MeetingBodies :
            /\ MeetingPOST(NoSession, b).resp = Unauthorized
            /\ MeetingPOST(NoSession, b).meetings = meetings
            /\ MeetingPOST(NoSession, b).participants = participants
    /\ \A m \in MeetingIds :
            /\ MeetingGET(NoSession, m).resp = Unauthorized
            /\ \A b \in JoinBodies :
                    /\ JoinPOST(NoSession, m, b).resp = Unauthorized
                    /\ JoinPOST(NoSession, m, b).participants = participants
    /\ \A q \in TtfuQueries : TtfusGET(NoSession, q).resp = Unauthorized
    /\ \A b \in TtfuBodies, found \in findFirstReviewer :
            /\ TtfuPOST(NoSession, b, found).resp = Unauthorized
            /\ TtfuPOST(NoSession, b, found).ttfus = ttfus
    /\ \A t \in TtfuIds :
            /\ TtfuGET(NoSession, t).resp = Unauthorized
            /\ \A b \in StatusBodies :
                    /\ TtfuPATCH(NoSession, t, b).resp = Unauthorized
                    /\ TtfuPATCH(NoSession, t, b).ttfus = ttfus
            /\ \A b \in EvidenceBodies :
                    /\ EvidencePOST(NoSession, t, b).resp = Unauthorized
                    /\ EvidencePOST(NoSession, t, b).evidences = evidences
    /\ \A e \in EvidenceIds, b \in ReviewBodies :
            /\ ReviewPOST(NoSession, e, b).resp = Unauthorized
            /\ ReviewPOST(NoSession, e, b).reviews = reviews
            /\ ReviewPOST(NoSession, e, b).ttfus = ttfus

\* A meeting is there that an authenticated user could join but has not,
\* next to evidence that an authenticated reviewer could review: the same
\* requests without a session find everything they would need.
C13_RequestsThatWouldSucceed ==
    /\ \E u \in Users, m \in DOMAIN meetings, b \in JoinBodies :
            /\ m > 1
            /\ JoinPOST(u, m, b).resp = Ok
            /\ JoinPOST(NoSession, m, b).resp = Unauthorized
    /\ \E u \in Users, e \in DOMAIN evidences, b \in ReviewBodies :
            /\ e > 1
            /\ ReviewPOST(u, e, b).resp = Ok
            /\ ReviewPOST(NoSession, e, b).resp = Unauthorized

\* C14: every TTFU that create TTFU adds has status open, and in every
\* state, whatever create TTFU and set status calls came before, valid or
\* not, every TTFU's status is one of open, in-progress, done, rejected.
C14_StatusEnumerated ==
    /\ \A t \in DOMAIN ttfus : ttfus[t].status \in TtfuStatus
    /\ \A u \in Users, b \in TtfuBodies, found \in findFirstReviewer :
            TtfuPOST(u, b, found).resp = Ok =>
                Created(TtfuPOST(u, b, found)).status = "OPEN"
    /\ \A u \in Users, t \in TtfuIds, b \in StatusBodies :
            \A i \in DOMAIN TtfuPATCH(u, t, b).ttfus :
                TtfuPATCH(u, t, b).ttfus[i].status \in TtfuStatus

\* A TTFU created by the handler stands open next to the seeded ones.
C14_CreatedOpen ==
    /\ Len(ttfus) > 2
    /\ ttfus[Len(ttfus)].status = "OPEN"

\* C15: no step of any operation changes or removes an Evidence or Review
\* row: after the step both tables hold every row they held before, at the
\* same place and with the same fields, and possibly new rows behind them.
C15_AppendOnly ==
    [][/\ Len(evidences') >= Len(evidences)
       /\ \A i \in DOMAIN evidences : evidences'[i] = evidences[i]
       /\ Len(reviews') >= Len(reviews)
       /\ \A i \in DOMAIN reviews : reviews'[i] = reviews[i]]_vars

\* Evidence and a Review were appended behind the seeded rows, which stand
\* as they were seeded.
C15_GrownBehindSeed ==
    /\ Len(evidences) > 1
    /\ Len(reviews) > 1
    /\ evidences[1] = [ttfuId |-> 1, type |-> "link", url |-> WellFormedUrl,
                       filePath |-> Null, submittedById |-> "user"]
    /\ reviews[1] = [evidenceId |-> 1, reviewerId |-> "reviewer", status |-> "approved"]

\* Every child row's parent row is in the store.
ParentsPresent(s) ==
    /\ \A p \in s.participants :
            p.meetingId \in DOMAIN s.meetings /\ p.userId \in DOMAIN s.role
    /\ \A t \in DOMAIN s.ttfus : s.ttfus[t].meetingId \in DOMAIN s.meetings
    /\ \A e \in DOMAIN s.evidences : s.evidences[e].ttfuId \in DOMAIN s.ttfus
    /\ \A r \in DOMAIN s.reviews : s.reviews[r].evidenceId \in DOMAIN s.evidences

\* C16: deleting a Meeting deletes its participant rows, its TTFUs, their
\* Evidence and the Reviews of that Evidence, and nothing else: every row of
\* another meeting is there afterwards with the fields and the parent it
\* had; and in every state every TTFU, Evidence and Review has its parent.
C16_MeetingDeleteCascades ==
    /\ ParentsPresent(Store)
    /\ \A m \in DOMAIN meetings :
        LET out == MeetingDELETE(m).store
            OtherM == DOMAIN meetings \ {m}
            OtherT == {t \in DOMAIN ttfus : ttfus[t].meetingId # m}
            OtherE == {e \in DOMAIN evidences : evidences[e].ttfuId \in OtherT}
            OtherR == {r \in DOMAIN reviews : reviews[r].evidenceId \in OtherE}
        IN
        /\ MeetingDELETE(m).done
        /\ ParentsPresent(out)
        /\ out.role = role
        /\ Len(out.meetings) = Cardinality(OtherM)
        /\ Len(out.ttfus) = Cardinality(OtherT)
        /\ Len(out.evidences) = Cardinality(OtherE)
        /\ Len(out.reviews) = Cardinality(OtherR)
        /\ Cardinality(out.participants) =
               Cardinality({p \in participants : p.meetingId # m})
        /\ \A o \in OtherM : out.meetings[Rank(OtherM, o)] = meetings[o]
        /\ \A t \in OtherT :
               LET now == out.ttfus[Rank(OtherT, t)] IN
               /\ now.assigneeId = ttfus[t].assigneeId
               /\ now.reviewerId = ttfus[t].reviewerId
               /\ now.status = ttfus[t].status
               /\ now.meetingId = Rank(OtherM, ttfus[t].meetingId)
        /\ \A e \in OtherE :
               LET now == out.evidences[Rank(OtherE, e)] IN
               /\ now.type = evidences[e].type
               /\ now.url = evidences[e].url
               /\ now.filePath = evidences[e].filePath
               /\ now.submittedById = evidences[e].submittedById
               /\ now.ttfuId = Rank(OtherT, evidences[e].ttfuId)
        /\ \A r \in OtherR :
               LET now == out.reviews[Rank(OtherR, r)] IN
               /\ now.reviewerId = reviews[r].reviewerId
               /\ now.status = reviews[r].status
               /\ now.evidenceId = Rank(OtherE, reviews[r].evidenceId)

\* The seeded meeting is gone with its participants, TTFUs, evidence and
\* review, while a meeting created after it stands with its TTFU.
C16_LaterMeetingSurvives ==
    /\ role = SeedRole
    /\ Len(meetings) = 1 /\ meetings[1].createdById = "user"
    /\ Len(ttfus) = 1 /\ ttfus[1].meetingId = 1
    /\ participants = {}
    /\ evidences = <<>>
    /\ reviews = <<>>

\* The rows a deletion of user u takes along through the cascades.
TtfusOf(u) ==
    {t \in DOMAIN ttfus : ttfus[t].assigneeId = u \/ ttfus[t].reviewerId = u}

UserDeleteCascades(u) ==
    LET out == UserDELETE(u).store
        OtherT == DOMAIN ttfus \ TtfusOf(u)
        OtherE == {e \in DOMAIN evidences :
                      evidences[e].ttfuId \in OtherT /\ evidences[e].submittedById # u}
        OtherR == {r \in DOMAIN reviews :
                      reviews[r].evidenceId \in OtherE /\ reviews[r].reviewerId # u}
    IN
    /\ UserDELETE(u).done
    /\ u \notin DOMAIN out.role
    /\ ParentsPresent(out)
    /\ out.meetings = meetings
    /\ Len(out.ttfus) = Cardinality(OtherT)
    /\ \A t \in DOMAIN out.ttfus :
           out.ttfus[t].assigneeId # u /\ out.ttfus[t].reviewerId # u
    /\ Len(out.evidences) = Cardinality(OtherE)
    /\ Len(out.reviews) = Cardinality(OtherR)

UserDeleteRejected(u) ==
    /\ ~UserDELETE(u).done
    /\ UserDELETE(u).store = Store

Creator(u) == \E m \in DOMAIN meetings : meetings[m].createdById = u

C18_OneRowPerMeetingAndUser ==
    /\ \A p, q \in participants :
            (p.meetingId = q.meetingId /\ p.userId = q.userId) => p = q
    /\ \A u \in Users, m \in DOMAIN meetings, b \in [role : MeetingRole] :
            existingParticipant(u, m) =>
                /\ JoinPOST(u, m, b).resp = Resp(400, "Already a participant in this meeting")
                /\ JoinPOST(u, m, b).participants = participants
    /\ \A k \in DOMAIN joining :
            existingParticipant(joining[k].userId, joining[k].meetingId) =>
                /\ JoinCreate(joining[k]).resp.status # 200
                /\ JoinCreate(joining[k]).participants = participants

\* A join that passed its lookup is still in flight while the same user's
\* row for the same meeting has been inserted by another request.
C18_JoinOvertaken ==
    \E k \in DOMAIN joining :
        existingParticipant(joining[k].userId, joining[k].meetingId)

\* C19: a request addressed to a row that is not there -- set status and
\* submit evidence on an unknown TTFU id, a read of an unknown TTFU or
\* meeting id, a submit review by a reviewer or admin on an unknown
\* evidence id -- is answered not-found (404) and writes nothing.  Read
\* for payloads that pass the operation's schema.
C19_MissingResourceNotFound ==
    \A u \in Users :
        /\ \A t \in TtfuIds \ DOMAIN ttfus :
               /\ TtfuGET(u, t).resp.status = 404
               /\ \A b \in StatusBodies :
                      updateSchema(b) =>
                          /\ TtfuPATCH(u, t, b).resp.status = 404
                          /\ TtfuPATCH(u, t, b).ttfus = ttfus
               /\ \A b \in EvidenceBodies :
                      createEvidenceSchema(b) =>
                          /\ EvidencePOST(u, t, b).resp.status = 404
                          /\ EvidencePOST(u, t, b).evidences = evidences
        /\ \A m \in MeetingIds \ DOMAIN meetings : MeetingGET(u, m).resp.status = 404
        /\ \A e \in EvidenceIds \ DOMAIN evidences, b \in ReviewBodies :
               (role[u] \in {"REVIEWER", "ADMIN"} /\ createReviewSchema(b)) =>
                   /\ ReviewPOST(u, e, b).resp.status = 404
                   /\ ReviewPOST(u, e, b).reviews = reviews

\* C20: for every operation, an authenticated well-formed request that
\* finds the store unreachable is answered with the storage-unavailable
\* status 503, never with 400 or 500.
C20_UnreachableIs503 ==
    \A op \in Operations, u \in Users : StoreUnreachable(op, u).status = 503

\* C21: no transition table: for every TTFU, whatever its status s, and
\* every status s' of the enumeration, a single set status call by any
\* authenticated caller leaves the TTFU in s' -- a done one reopened, a
\* rejected one in progress, one without evidence or approved review done.
C21_AnyStatusToAny ==
    \A u \in Users, t \in DOMAIN ttfus, b \in StatusBodies :
        b.status \in TtfuStatus =>
            /\ TtfuPATCH(u, t, b).resp.status = 200
            /\ TtfuPATCH(u, t, b).ttfus[t].status = b.status

C23_ExplicitIdsKept ==
    \A u \in Users, b \in TtfuBodies, found \in findFirstReviewer :
        TtfuPOST(u, b, found).resp = Ok =>
            /\ Truthy(b.assigneeId) =>
                   Created(TtfuPOST(u, b, found)).assigneeId = b.assigneeId
            /\ Truthy(b.reviewerId) =>
                   Created(TtfuPOST(u, b, found)).reviewerId = b.reviewerId

\* Create-meeting bodies that list none, one or two participants.
PairInputs == [userId : Users \cup {Ghost}, role : {"participant", "reviewer"}]

InviteBodies ==
    [title : {"", "t"},
     participants : {<<>>} \cup {<<p>> : p \in ParticipantInputs}
                        \cup {<<p, q>> : p, q \in PairInputs}]

Listed(body) == {body.participants[i].userId : i \in DOMAIN body.participants}

\* C24: a successful create meeting appends exactly one Meeting, created
\* by the caller, and adds exactly one participant row of that meeting per
\* listed participant, all at once; when a listed participant cannot be
\* written -- a user listed twice, an unknown user id -- the call fails and
\* neither the Meeting nor any participant row is added.
C24_MeetingWithParticipantsAtomic ==
    \A u \in Users, b \in InviteBodies :
        LET out == MeetingPOST(u, b)
            id == Len(meetings) + 1
        IN
        /\ out.resp = Ok =>
               /\ out.meetings = Append(meetings, [createdById |-> u])
               /\ participants \subseteq out.participants
               /\ \A p \in out.participants \ participants : p.meetingId = id
               /\ Cardinality(out.participants \ participants) = Len(b.participants)
               /\ \A i \in DOMAIN b.participants :
                      [meetingId |-> id, userId |-> b.participants[i].userId,
                       role |-> b.participants[i].role] \in out.participants
        /\ out.resp # Ok =>
               out.meetings = meetings /\ out.participants = participants
        /\ (\/ Cardinality(Listed(b)) < Len(b.participants)
            \/ ~(Listed(b) \subseteq Users)) => out.resp # Ok
        /\ (/\ createMeetingSchema(b)
            /\ Cardinality(Listed(b)) = Len(b.participants)
            /\ Listed(b) \subseteq Users) => out.resp = Ok

\* A meeting created after the seeded one stands with a listed participant.
C24_MeetingWithInvitee ==
    \E m \in DOMAIN meetings, p \in participants :
        /\ m > 1
        /\ p.meetingId = m
        /\ p.userId # meetings[m].createdById
        /\ joining = <<>>

\* A submit-evidence body that carries what its kind requires.
CompleteEvidence(b) ==
    /\ createEvidenceSchema(b)
    /\ b.type = "link" => Truthy(b.url)
    /\ b.type = "file" => Truthy(b.filePath)

\* C25: a successful submit evidence appends exactly one row, submitted by
\* the caller under the addressed TTFU, and leaves the rows before it; a
\* submission is never refused for what the table holds already, so n
\* successful submissions on a TTFU, by whomever and with whatever content,
\* make n rows.
C25_EverySubmissionOneRow ==
    \A u \in Users, t \in DOMAIN ttfus, b \in EvidenceBodies :
        LET out == EvidencePOST(u, t, b) IN
        /\ out.resp = Ok =>
               /\ Len(out.evidences) = Len(evidences) + 1
               /\ \A e \in DOMAIN evidences : out.evidences[e] = evidences[e]
               /\ out.evidences[Len(evidences) + 1].submittedById = u
               /\ out.evidences[Len(evidences) + 1].ttfuId = t
               /\ out.evidences[Len(evidences) + 1].type = b.type
        /\ CompleteEvidence(b) => out.resp = Ok

\* A TTFU holds two Evidence rows of the same submitter with the same
\* content, and a third row of another submitter.
C25_SameEvidenceTwice ==
    \E e, f, g \in DOMAIN evidences :
        /\ e < f
        /\ evidences[e] = evidences[f]
        /\ evidences[g].ttfuId = evidences[e].ttfuId
        /\ evidences[g].submittedById # evidences[e].submittedById

\* An id the request names that no row carries.
Dangling(b) ==
    \/ b.meetingId \notin DOMAIN meetings
    \/ Truthy(b.assigneeId) /\ b.assigneeId \notin Users
    \/ Truthy(b.reviewerId) /\ b.reviewerId \notin Users

\* C26: every TTFU's meeting is a Meeting row and its assignee and reviewer
\* are User rows; a create TTFU that names a meeting, an assignee or a
\* reviewer that no row carries adds no TTFU.
C26_TtfuReferencesExist ==
    /\ \A t \in DOMAIN ttfus :
            /\ ttfus[t].meetingId \in DOMAIN meetings
            /\ ttfus[t].assigneeId \in Users
            /\ ttfus[t].reviewerId \in Users
    /\ \A u \in Users, b \in TtfuBodies, found \in findFirstReviewer :
            Dangling(b) => TtfuPOST(u, b, found).ttfus = ttfus

\* C27: every TTFU's designated reviewer has global role reviewer or admin,
\* however the reviewer came to be designated, so that a well-formed submit
\* review by the designated reviewer on an evidence of the TTFU not yet
\* reviewed by them is never answered with an authorization error.
C27_DesignatedReviewerAuthorized ==
    /\ \A t \in DOMAIN ttfus : role[ttfus[t].reviewerId] \in {"REVIEWER", "ADMIN"}
    /\ \A e \in DOMAIN evidences, b \in WellFormedReviewBodies :
            LET r == ttfus[evidences[e].ttfuId].reviewerId IN
            ~HasReview(r, e) => ReviewPOST(r, e, b).resp.status # 403

\* The checks of submit review, each true when the request fails it.
NoRole(s) == role[s] \notin {"REVIEWER", "ADMIN"}
NotDesignated(s, e) ==
    ttfus[evidences[e].ttfuId].reviewerId # s /\ role[s] # "ADMIN"

FormData == [meetingId : MeetingIds, title : {"", "t"}]
Bare(data) ==
    [meetingId |-> data.meetingId, title |-> data.title,
     assigneeId |-> Absent, reviewerId |-> Absent]

\* C29: for every creator and every directory, submitting the new-TTFU form
\* has the outcome of a create request that names no assignee and no
\* reviewer: the same response and the same TTFU, with the assignee and
\* reviewer of the server's auto-assignment.
C29_FormAgreesWithServer ==
    \A u \in Users, data \in FormData, found \in findFirstReviewer :
        \A currentUser \in find({r \in UsersGET : IsCurrent(u, r)}),
           reviewer \in find({r \in UsersGET : IsManagerOrAdmin(r)}) :
            TtfuPOST(u, NewTTFUForm(data, currentUser, reviewer), found)
                = TtfuPOST(u, Bare(data), found)

\* Evidence of TTFU t that user u has not reviewed.
Unreviewed(u, t) ==
    {e \in DOMAIN evidences : evidences[e].ttfuId = t /\ ~HasReview(u, e)}

\* C30: the reviewer dashboard lists a TTFU as pending review for a user
\* exactly when the user is its designated reviewer or an admin and one of
\* its evidences has no review by that user.  The list is computed from the
\* stored rows on every visit, so that a reviewed evidence no longer counts
\* and a TTFU reviewed throughout stays off the list until new evidence
\* arrives.
C30_PendingExactlyUnreviewed ==
    \A u \in Users, t \in DOMAIN ttfus :
        t \in ReviewerDashboard(u).pending <=>
            /\ ttfus[t].reviewerId = u \/ role[u] = "ADMIN"
            /\ Unreviewed(u, t) # {}
====
